---- MODULE Spec2Model ----
(***************************************************************************)
(* Model of inclined_simulation_pyscript.py: the SimulationController      *)
(* state machine (height presets, start/pause toggle, reset, the 1/60 s    *)
(* update tick) together with InclineScene's kinematics and GraphPlot's    *)
(* sample trace.                                                           *)
(*                                                                         *)
(* Numbers.  The program computes in binary floating point; the model      *)
(* computes the same quantities exactly, as integers in fixed units:       *)
(*   heights, lengths, speeds of the tables : hundredths (0.25 m -> 25)    *)
(*   elapsed time scene.t                   : ticks of dt = 1/FPS s        *)
(*   displacement scene.s and scene.L       : 1/SUnit m                    *)
(*   velocity of a sample                   : 1/VUnit m/s                  *)
(*   block_pos                              : 1/SUnit pixel along the      *)
(*                                            incline from incline_start   *)
(* Every comparison the program makes (s < L, s > L, s >= L, the verdict)  *)
(* is far from equality for all five presets (the closest is the verdict   *)
(* of h = 1.25 m, 0.04098 against 0.04), so floating-point rounding does   *)
(* not change any outcome.                                                 *)
(***************************************************************************)
EXTENDS Integers, Sequences, FiniteSets, TLC

\* ------------------------------------------------------------------ bounds
\* Start may be pressed at most MaxReruns times on an already completed run
\* (each such press appends one more sample, without end).
MaxReruns == 2
\* The sample trace holds at most MaxSamples samples.
MaxSamples == 70

\* --------------------------------------------------------------- constants
FPS == 60
\* G = 9.8 as GNum / GDen
GNum == 49
GDen == 5
\* SIN_THETA = sin(30 deg) = 1/2 as SinNum / SinDen
SinNum == 1
SinDen == 2
\* A = G * SIN_THETA as ANum / ADen
ANum == GNum * SinNum
ADen == GDen * SinDen
\* L_PHYSICAL_MAX = 2.5 m, in hundredths
L_PHYSICAL_MAX == 250
L_PIXEL_MAX == 400

HEIGHTS == <<25, 50, 75, 100, 125>>
PLANE_LENGTHS == <<50, 100, 150, 200, 250>>
EXP_AVG_SPEEDS == <<111, 100, 150, 200, 250>>
EXP_STD_DEVS == <<3, 4, 3, 3, 4>>

\* s = 0.5 * A * t^2 with t = n / FPS is ANum * n^2 / SUnit
SUnit == 2 * ADen * FPS * FPS
\* v = A * t with t = n / FPS is ANum * n / VUnit, VUnit = ADen * FPS
\* a table length (hundredths of a metre) in 1/SUnit m
Meters(c) == (c * SUnit) \div 100

Abs(x) == IF x < 0 THEN -x ELSE x

\* list.index(x): the first position holding x
Index(list, x) == CHOOSE i \in 1..Len(list) :
                      /\ list[i] = x
                      /\ \A j \in 1..(i - 1) : list[j] # x

\* ------------------------------------------------- button text round trip
Digit(d) == <<"0", "1", "2", "3", "4", "5", "6", "7", "8", "9">>[d + 1]

DigitValue(ch) == CHOOSE d \in 0..9 : Digit(d) = ch

RECURSIVE IntDigits(_)
IntDigits(n) == IF n < 10 THEN <<Digit(n)>>
                ELSE Append(IntDigits(n \div 10), Digit(n % 10))

\* f"{h}" of a float with at most two decimals: shortest repr, which keeps
\* one digit after the point (0.50 -> "0.5", 1.00 -> "1.0")
FloatRepr(c) ==
    LET ip == c \div 100
        fr == c % 100
        frac == IF fr % 10 = 0 THEN <<Digit(fr \div 10)>>
                ELSE <<Digit(fr \div 10), Digit(fr % 10)>>
    IN  IntDigits(ip) \o <<".">> \o frac

\* f"h = {h} m"
ButtonText(h) == <<"h", " ", "=", " ">> \o FloatRepr(h) \o <<" ", "m">>

\* position of the first ch in str at or after position from, else Len(str) + 1
RECURSIVE Find(_, _, _)
Find(str, ch, from) ==
    IF from > Len(str) THEN Len(str) + 1
    ELSE IF str[from] = ch THEN from
    ELSE Find(str, ch, from + 1)

\* text.split('=')[1]: what lies between the first and the second '='
SplitEq1(str) ==
    LET a == Find(str, "=", 1)
        b == Find(str, "=", a + 1)
    IN  SubSeq(str, a + 1, b - 1)

RECURSIVE SkipSpaces(_, _)
SkipSpaces(str, from) ==
    IF from <= Len(str) /\ str[from] = " " THEN SkipSpaces(str, from + 1)
    ELSE from

\* str.strip().split()[0]: the first whitespace-delimited word
FirstWord(str) ==
    LET a == SkipSpaces(str, 1)
        b == Find(str, " ", a)
    IN  SubSeq(str, a, b - 1)

RECURSIVE DigitsValue(_)
DigitsValue(ds) ==
    IF ds = <<>> THEN 0
    ELSE 10 * DigitsValue(SubSeq(ds, 1, Len(ds) - 1)) + DigitValue(ds[Len(ds)])

\* float(word), in hundredths
ParseFloat(word) ==
    LET p == Find(word, ".", 1)
        ip == DigitsValue(SubSeq(word, 1, p - 1))
        fd == SubSeq(word, p + 1, Len(word))
        fr == IF Len(fd) = 0 THEN 0
              ELSE IF Len(fd) = 1 THEN 10 * DigitValue(fd[1])
              ELSE 10 * DigitValue(fd[1]) + DigitValue(fd[2])
    IN  100 * ip + fr

\* float(btn.text.split('=')[1].strip().split()[0])
HeightOfText(text) == ParseFloat(FirstWord(SplitEq1(text)))

\* ------------------------------------------------------------------- state
VARIABLES selected_height, running, paused, start_text, scene, points,
          fit_results, match_status, loop, last

vars == <<selected_height, running, paused, start_text, scene, points,
          fit_results, match_status, loop, last>>

\* the controller's state as the specification names it
Mode == IF running THEN (IF paused THEN "paused" ELSE "running")
        ELSE IF scene.s >= scene.L THEN "completed" ELSE "idle"

\* ------------------------------------------------------------ InclineScene
SceneInit == [t |-> 0, s |-> 0, L |-> Meters(PLANE_LENGTHS[1]), block_pos |-> 0]

\* SceneReset that leaves the displacement as it was
SceneResetKeepsS(sc) == [sc EXCEPT !.block_pos = 0, !.t = 0]

SceneReset(sc) == [sc EXCEPT !.block_pos = 0, !.t = 0, !.s = 0]

\* SceneSetHeight without the call of reset
SceneSetHeightNoReset(sc, h) ==
    [sc EXCEPT !.L = Meters(PLANE_LENGTHS[Index(HEIGHTS, h)])]

\* SceneSetHeight that resets but keeps the former plane length
SceneSetHeightKeepsL(sc, h) == SceneReset(sc)

SceneSetHeight(sc, h) ==
    SceneReset([sc EXCEPT !.L = Meters(PLANE_LENGTHS[Index(HEIGHTS, h)])])

\* Clamp that never clamps
ClampNever(s, L) == s

\* if self.s > self.L: self.s = self.L
Clamp(s, L) == IF s > L THEN L ELSE s

\* pixel_s = (s / L_PHYSICAL_MAX) * L_PIXEL_MAX, in 1/SUnit pixel
PixelS(s) == s * ((L_PIXEL_MAX * 100) \div L_PHYSICAL_MAX)

\* InclineScene.update(dt), dt in ticks; the scene after the call
SceneUpdate(sc, dt) ==
    IF sc.s < sc.L
    THEN LET t1 == sc.t + dt
             s1 == Clamp(ANum * t1 * t1, sc.L)
         IN  [sc EXCEPT !.t = t1, !.s = s1, !.block_pos = PixelS(s1)]
    ELSE sc

\* the pair InclineScene.update returns: (self.s, A * self.t)
SceneSample(sc) == <<sc.s, ANum * sc.t>>

\* ---------------------------------------------------- SimulationController
\* self.fit_results = None
NoFit == <<>>

\* the value stored by a completed run: the two fits of the fixed tables
\* HEIGHTS and EXP_AVG_SPEEDS, computed by scipy (stats.linregress, curve_fit)
FitOfTables == [linear |-> "linregress(HEIGHTS, EXP_AVG_SPEEDS)",
                power |-> "curve_fit(power_law, HEIGHTS, EXP_AVG_SPEEDS)"]

\* Active that forgets the paused flag
ActiveIgnoresPaused(r, p) == r

\* if self.running and not self.paused
Active(r, p) == r /\ ~p

\* Completed with a strict comparison
CompletedStrict(s, L) == s > L

\* if s >= self.scene.L
Completed(s, L) == s >= L

\* self.scene.L / actual_time if actual_time > 0 else 0, in m/s, as the
\* fraction <<numerator, denominator>> (L in 1/SUnit m, actual_time in ticks)
MeasuredV(L, actual_time) ==
    IF actual_time > 0 THEN <<((L * 100) \div SUnit) * FPS, 100 * actual_time>>
    ELSE <<0, 1>>

\* MatchStatus without the absolute value
MatchStatusSigned(measured_v, exp_v, exp_sd) ==
    IF 100 * measured_v[1] - exp_v * measured_v[2] <= exp_sd * measured_v[2]
    THEN "Success" ELSE "Deviation"

\* "Success" if abs(measured_v - exp_v) <= exp_sd else "Deviation"
\* (exp_v and exp_sd in hundredths)
MatchStatus(measured_v, exp_v, exp_sd) ==
    IF Abs(100 * measured_v[1] - exp_v * measured_v[2]) <= exp_sd * measured_v[2]
    THEN "Success" ELSE "Deviation"

\* ToggleLabel with the two labels exchanged
ToggleLabelSwapped(p) == IF p THEN "Pause" ELSE "Resume"

\* "Resume" if self.paused else "Pause"
ToggleLabel(p) == IF p THEN "Resume" ELSE "Pause"

Init ==
    /\ selected_height = HEIGHTS[1]
    /\ running = FALSE
    /\ paused = FALSE
    /\ start_text = "Start"
    /\ scene = SceneInit
    /\ points = <<>>
    /\ fit_results = NoFit
    /\ match_status = ""
    /\ loop = "polling"
    /\ last = [op |-> "init", from |-> "idle", arg |-> 0]

\* handle_events: a MOUSEBUTTONDOWN over height button i
ClickHeight(i) ==
    /\ loop = "polling"
    /\ selected_height' = HeightOfText(ButtonText(HEIGHTS[i]))
    /\ scene' = SceneSetHeight(scene, selected_height')
    /\ running' = FALSE
    /\ paused' = FALSE
    /\ start_text' = "Start"
    /\ points' = <<>>
    /\ fit_results' = NoFit
    /\ match_status' = ""
    /\ last' = [op |-> "height", from |-> Mode, arg |-> i]
    /\ UNCHANGED loop

\* handle_events: a MOUSEBUTTONDOWN over the start button
ClickStart ==
    /\ loop = "polling"
    /\ Mode = "completed" => Len(points) < scene.t + MaxReruns
    /\ IF ~running
       THEN /\ running' = TRUE
            /\ paused' = FALSE
            /\ start_text' = "Pause"
       ELSE /\ paused' = ~paused
            /\ start_text' = ToggleLabel(paused')
            /\ UNCHANGED running
    /\ last' = [op |-> "toggle", from |-> Mode, arg |-> 0]
    /\ UNCHANGED <<selected_height, scene, points, fit_results, match_status, loop>>

\* ClickReset that leaves the fit result in place
ClickResetKeepsFit ==
    /\ loop = "polling"
    /\ scene' = SceneReset(scene)
    /\ running' = FALSE
    /\ paused' = FALSE
    /\ start_text' = "Start"
    /\ points' = <<>>
    /\ match_status' = ""
    /\ last' = [op |-> "reset", from |-> Mode, arg |-> 0]
    /\ UNCHANGED <<selected_height, loop, fit_results>>

\* handle_events: a MOUSEBUTTONDOWN over the reset button
ClickReset ==
    /\ loop = "polling"
    /\ scene' = SceneReset(scene)
    /\ running' = FALSE
    /\ paused' = FALSE
    /\ start_text' = "Start"
    /\ points' = <<>>
    /\ fit_results' = NoFit
    /\ match_status' = ""
    /\ last' = [op |-> "reset", from |-> Mode, arg |-> 0]
    /\ UNCHANGED <<selected_height, loop>>

\* handle_events: pygame.QUIT or the escape key; the remaining events of the
\* frame are dropped, and main() still calls update once before it leaves
Quit ==
    /\ loop = "polling"
    /\ loop' = "quit"
    /\ last' = [op |-> "quit", from |-> Mode, arg |-> 0]
    /\ UNCHANGED <<selected_height, running, paused, start_text, scene, points,
                   fit_results, match_status>>

\* SimulationController.update(1.0 / FPS), once per frame
Tick ==
    /\ loop # "exited"
    /\ Active(running, paused) => Len(points) < MaxSamples
    /\ loop' = IF loop = "quit" THEN "exited" ELSE loop
    /\ last' = [op |-> "tick", from |-> Mode, arg |-> 0]
    /\ IF Active(running, paused)
       THEN LET sc == SceneUpdate(scene, 1)
                sample == SceneSample(sc)
                idx == Index(HEIGHTS, selected_height)
            IN  /\ scene' = sc
                /\ points' = Append(points, sample)
                /\ IF Completed(sample[1], sc.L)
                   THEN /\ running' = FALSE
                        /\ start_text' = "Start"
                        /\ match_status' = MatchStatus(MeasuredV(sc.L, sc.t),
                                                       EXP_AVG_SPEEDS[idx],
                                                       EXP_STD_DEVS[idx])
                        /\ fit_results' = FitOfTables
                   ELSE UNCHANGED <<running, start_text, match_status, fit_results>>
                /\ UNCHANGED <<selected_height, paused>>
       ELSE UNCHANGED <<selected_height, running, paused, start_text, scene,
                        points, fit_results, match_status>>

Next ==
    \/ \E i \in 1..Len(HEIGHTS) : ClickHeight(i)
    \/ ClickStart
    \/ ClickReset
    \/ Quit
    \/ Tick

Spec == Init /\ [][Next]_vars

\* ------------------------------------------- a run that is only ticked
\* the states right after a height button was clicked in the initial state
RunInit ==
    \E i \in 1..Len(HEIGHTS) :
        /\ selected_height = HEIGHTS[i]
        /\ running = FALSE
        /\ paused = FALSE
        /\ start_text = "Start"
        /\ scene = SceneSetHeight(SceneInit, HEIGHTS[i])
        /\ points = <<>>
        /\ fit_results = NoFit
        /\ match_status = ""
        /\ loop = "polling"
        /\ last = [op |-> "height", from |-> "idle", arg |-> i]

\* a tick that advances the run, and the press that resumes a paused run
ActiveTick == Active(running, paused) /\ Tick
Resume == running /\ paused /\ ClickStart

RunNext == ClickStart \/ Tick

\* the frame loop calls update every frame, and every pause is resumed
LiveSpec == RunInit /\ [][RunNext]_vars /\ SF_vars(ActiveTick) /\ WF_vars(Resume)

\* ------------------------------------------------------------------ claims
SelectedIndex == Index(HEIGHTS, selected_height)

\* C1: the displacement always lies between 0 and the plane length of the
\* selected height; a tick never decreases it, and a tick taken once it has
\* reached the plane length leaves it exactly there.
C1_DisplacementClamped ==
    /\ 0 <= scene.s /\ scene.s <= scene.L
    /\ [][ /\ 0 <= scene'.s /\ scene'.s <= scene'.L
           /\ last'.op = "tick" => scene'.s >= scene.s
           /\ (last'.op = "tick" /\ scene.s = scene.L) => scene'.s = scene'.L
         ]_vars

\* a tick of a running controller taken after the displacement reached L
C1_Witness ==
    /\ last.op = "tick" /\ last.from = "running"
    /\ scene.s = scene.L
    /\ Len(points) > scene.t

\* C2: after a click on height button i, whatever the state before, the
\* selected height is preset i, elapsed time and displacement are 0, the
\* trace is empty, fit and verdict are cleared, and the controller is idle
\* with the label "Start".
C2_HeightClickResets ==
    last.op = "height" =>
        /\ selected_height = HEIGHTS[last.arg]
        /\ scene.t = 0 /\ scene.s = 0
        /\ points = <<>>
        /\ fit_results = NoFit /\ match_status = ""
        /\ ~running /\ ~paused /\ start_text = "Start"

\* a height button clicked while a run of another height was paused
C2_Witness ==
    /\ last.op = "height" /\ last.from = "paused"
    /\ last.arg = 4 /\ selected_height = HEIGHTS[4]

\* C3: a click on reset, whatever the state before, makes the controller
\* idle with the label "Start", sets elapsed time and displacement to 0,
\* empties the trace and clears fit and verdict, and keeps the selected
\* height and its plane length.
C3_ResetReturnsToIdle ==
    [][ last'.op = "reset" =>
          /\ ~running' /\ ~paused' /\ start_text' = "Start"
          /\ scene'.t = 0 /\ scene'.s = 0
          /\ points' = <<>>
          /\ fit_results' = NoFit /\ match_status' = ""
          /\ selected_height' = selected_height
          /\ scene'.L = scene.L
      ]_vars

\* reset clicked after a completed run of the third preset
C3_Witness ==
    /\ last.op = "reset" /\ last.from = "completed"
    /\ selected_height = HEIGHTS[3]
    /\ scene.L = Meters(PLANE_LENGTHS[3])

LabelNamesNextAction ==
    /\ start_text = "Start" <=> ~running
    /\ start_text = "Pause" <=> (running /\ ~paused)
    /\ start_text = "Resume" <=> (running /\ paused)

\* C4: the toggle takes idle to running, running to paused and paused to
\* running, and in every state the label is "Start" exactly when idle,
\* "Pause" exactly when running and unpaused, "Resume" exactly when paused.
C4_ToggleCycles ==
    /\ LabelNamesNextAction
    /\ [][ /\ LabelNamesNextAction'
           /\ last'.op = "toggle" =>
                /\ ~running => (running' /\ ~paused')
                /\ (running /\ ~paused) => (running' /\ paused')
                /\ (running /\ paused) => (running' /\ ~paused')
         ]_vars

\* a paused run, reached by the toggle from a run started after a completed one
C4_Witness ==
    /\ last.op = "toggle" /\ last.from = "running"
    /\ start_text = "Resume"
    /\ scene.s = scene.L

\* C5: on the tick that ends a run, the verdict is "Success" exactly when
\* |L / elapsed - experimental mean| <= experimental SD for the selected
\* height (L / elapsed = PLANE_LENGTHS * FPS / (100 * ticks) m/s), and
\* "Deviation" otherwise.
C5_VerdictMatchesTolerance ==
    (last.op = "tick" /\ last.from = "running" /\ ~running) =>
        LET i == SelectedIndex
            n == scene.t
        IN  /\ scene.s = scene.L
            /\ n > 0
            /\ match_status \in {"Success", "Deviation"}
            /\ match_status = "Success" <=>
                 Abs(PLANE_LENGTHS[i] * FPS - EXP_AVG_SPEEDS[i] * n)
                     <= EXP_STD_DEVS[i] * n

\* the tick that completes a run of the first preset
C5_Witness ==
    /\ last.op = "tick" /\ last.from = "running" /\ ~running
    /\ selected_height = HEIGHTS[1]
    /\ Len(points) = scene.t
    /\ match_status = "Deviation"

\* C6: a started run that is only ticked, paused and resumed reaches
\* s = L and the controller returns to idle.
C6_RunCompletes == running ~> (~running /\ scene.s = scene.L)

\* the run of the largest preset completed by its 61st tick
C6_Witness ==
    /\ ~running /\ scene.s = scene.L
    /\ last.op = "tick" /\ last.from = "running"
    /\ selected_height = HEIGHTS[5]
    /\ scene.t = 61

\* C7: a tick taken while idle or paused changes neither elapsed time,
\* displacement, block position, trace, verdict nor fit; elapsed time grows
\* only in a tick of a running, unpaused controller.
C7_TimeAdvancesOnlyWhenActive ==
    [][ /\ (last'.op = "tick" /\ ~(running /\ ~paused)) =>
               UNCHANGED <<scene, points, match_status, fit_results>>
        /\ last'.op # "tick" => scene'.t <= scene.t
        /\ scene'.t > scene.t => (running /\ ~paused /\ last'.op = "tick")
      ]_vars

\* a tick taken while a run was paused half way
C7_Witness ==
    /\ last.op = "tick" /\ last.from = "paused"
    /\ scene.t > 0 /\ scene.s < scene.L

\* C8: the plane length of the scene is the table entry of the selected
\* height, and every table entry is height / sin(30 deg).
C8_PlaneLengthFollowsHeight ==
    /\ selected_height \in {HEIGHTS[i] : i \in 1..Len(HEIGHTS)}
    /\ scene.L = Meters(PLANE_LENGTHS[SelectedIndex])
    /\ Len(PLANE_LENGTHS) = Len(HEIGHTS)
    /\ \A i \in 1..Len(HEIGHTS) : PLANE_LENGTHS[i] * SinNum = HEIGHTS[i] * SinDen

\* a run of the fourth preset under way
C8_Witness ==
    /\ selected_height = HEIGHTS[4]
    /\ running /\ scene.t > 0

\* C9: the fit result is set exactly when the verdict is; when they are set
\* the displacement is at the plane length, and right after a reset or a
\* height click they are not set.
C9_FitOnlyAfterCompletion ==
    /\ fit_results # NoFit <=> match_status # ""
    /\ fit_results # NoFit => (scene.s = scene.L /\ scene.t > 0)
    /\ last.op \in {"reset", "height"} => fit_results = NoFit

\* fit and verdict on display after a completed run
C9_Witness ==
    /\ fit_results = FitOfTables
    /\ match_status # ""
    /\ last.op = "tick" /\ last.from = "running"

\* C10: the trace has one sample per tick by which elapsed time advanced
\* since the last reset or height click, its displacements are in
\* non-decreasing order and none exceeds the plane length.
C10_TraceMatchesTicks ==
    /\ Len(points) = scene.t
    /\ points = <<>> <=> scene.t = 0
    /\ \A i, j \in 1..Len(points) : i <= j => points[i][1] <= points[j][1]
    /\ \A i \in 1..Len(points) : points[i][1] <= scene.L
====
